---- MODULE Spec2Model ----
(***************************************************************************)
(* Account validation controller of the aws-account-operator               *)
(* (pkg/controller/validation/account_validation_controller.go).           *)
(*                                                                         *)
(* One reconciliation (Reconcile) fetches an Account and the operator      *)
(* config map, refreshes the two process-wide feature gates, checks that   *)
(* the account sits directly under the pool OU (ParentsTillPredicate,      *)
(* IsAccountInPoolOU), moves it there when it does not (MoveAccount),      *)
(* and then checks the owner tag (ValidateAccountTags).                    *)
(*                                                                         *)
(* The organization tree and the tag sets live in the cloud provider; the  *)
(* model keeps them as state (parents, tags).  Every call to an external   *)
(* service may answer or return an error, as the Go signatures             *)
(* (output, err) allow.  Each call of the code is one step of a run, so a  *)
(* walk of a cyclic parent relation is a run that keeps taking steps.      *)
(*                                                                         *)
(* Client construction (awsClientBuilder.GetClient, lines 268-276) only    *)
(* logs its error; the builder is outside this file and the model takes    *)
(* the client as constructed.                                              *)
(***************************************************************************)
EXTENDS Integers, Sequences, FiniteSets, TLC

VARIABLES
    parents,            \* tree service: node -> the list ListParents answers
    tags,               \* tag service: the tag list of each run's account
    store,              \* account store: the Account object of each request
    shardName,          \* ValidateAccount.shardName (line 39)
    accountMoveEnabled, \* package variable, line 26
    accountTagEnabled,  \* package variable, line 27
    pc,                 \* per run: the position in Reconcile
    account,            \* per run: the fetched Account (line 239)
    cmData,             \* per run: the gate keys of the fetched config map
    awsId,              \* per run: awsId of the current ParentsTillPredicate call
    parentList,         \* per run: parentList of IsAccountInPoolOU (line 130)
    walkErr,            \* per run: the error ParentsTillPredicate returned
    inPool,             \* per run: inPool of ValidateAccountOU (line 216)
    moveAccount,        \* per run: the moveAccount argument of MoveAccount
    oldOu,              \* per run: oldOu of MoveAccount (line 150)
    moveErr,            \* per run: what MoveAccount returned
    setupErr,           \* per run: which fetch of the setup failed
    ouErr,              \* per run: what ValidateAccountOU returned
    tagErr,             \* per run: what ValidateAccountTags returned
    result,             \* per run: the reconcile.Result returned
    calls,              \* per run: the external calls issued, in order
    moveRead,           \* per run: what ParseBool gave at line 252
    movedBefore         \* per request: an earlier run's MoveAccount request succeeded

vars == <<parents, tags, store, shardName, accountMoveEnabled, accountTagEnabled,
          pc, account, cmData, awsId, parentList, walkErr, inPool, moveAccount,
          oldOu, moveErr, setupErr, ouErr, tagErr, result, calls, moveRead,
          movedBefore>>

envVars == <<tags, store, shardName>>
walkVars == <<awsId, parentList, walkErr, inPool>>
moverVars == <<moveAccount, oldOu, moveErr>>
gateVars == <<accountMoveEnabled, accountTagEnabled>>
histVars == <<moveRead, movedBefore>>

----
(* Bounds of the model *)

\* Longest ancestry path a walk may build before the model stops following it
\* (the code has no such limit; only a cyclic parent relation reaches it).
MaxDepth == 4
\* Longest list a parent lookup answers.
MaxParents == 2
\* Longest tag list the tag service answers.
MaxTags == 2

----
(* The universe *)

Procs == {1, 2}
OUs == {"OU1", "OU2", "OU3"}
\* cm.Data["root"], the pool OU (line 279)
PoolOU == "OU2"
\* The cloud identifier of the account each run is about.
IdOf == [p \in Procs |-> IF p = 1 THEN "A" ELSE "B"]
AccountIds == {IdOf[p] : p \in Procs}
Nodes == AccountIds \cup OUs

\* const ownerKey (line 32)
ownerKey == "owner"
\* const moveWaitTime, in minutes (line 31)
moveWaitTime == 5

None == "none"
Nil == "nil"

\* The error value of a walk: nil, the error of a failed ListParents call, or
\* errors.New("More than 1 parents found for Id " + awsId) (line 113).
NoErr == [kind |-> None, id |-> ""]
NilErr == [kind |-> Nil, id |-> ""]
ListParentsErr == [kind |-> "ListParentsError", id |-> ""]
MoreThanOneParentErr(id) == [kind |-> "MoreThanOneParent", id |-> id]

\* Sequences of at most n distinct elements of S.
DistinctSeqs(S, n) ==
    { s \in UNION { [1..k -> S] : k \in 0..n } :
        \A i, j \in DOMAIN s : i # j => s[i] # s[j] }

TagKeys == {"owner", "team", "Owner"}
ShardNames == {"shardX", "shardY"}
AllTags == [Key : TagKeys, Value : ShardNames]
\* Tag lists with distinct keys (a tag set is a mapping).
TagLists ==
    { s \in UNION { [1..k -> AllTags] : k \in 0..MaxTags } :
        \A i, j \in DOMAIN s : i # j => s[i].Key # s[j].Key }

\* Values the two gate keys of the config map take; "" is an absent key.
GateStrings == {"true", "0", "", "yes"}
ConfigMaps == [move : GateStrings, tag : GateStrings]
NoConfig == [move |-> "", tag |-> ""]

Accounts == [AwsAccountID : AccountIds \cup {""}, BYOC : BOOLEAN, OwnedByPool : BOOLEAN]
NoAccount == [AwsAccountID |-> "", BYOC |-> FALSE, OwnedByPool |-> FALSE]

\* reconcile.Result values
NoResult == [kind |-> None, minutes |-> 0]

NoCalls == <<>>
Call(op, id, src, dst) == [op |-> op, id |-> id, src |-> src, dst |-> dst]

----
(* External collaborators *)

\* Account.IsBYOC() and Account.IsOwnedByAccountPool() (pkg/apis/aws/v1alpha1):
\* the two flags of the Account of spec section 3.
IsBYOC(acct) == acct.BYOC
IsOwnedByAccountPool(acct) == acct.OwnedByPool

\* Tree service, getParent: the answers a ListParents call for child id may
\* give.  A call may fail; an identifier that names no node is rejected.
ListParentsAnswers(id) == IF id \in Nodes THEN BOOLEAN ELSE {FALSE}

\* Tree service, reparent: the tree after a successful request.
Reparented(tree, id, dst) == [tree EXCEPT ![id] = <<dst>>]

\* utils.DoNotRequeue() and utils.RequeueAfter(d) (pkg/controller/utils)
DoNotRequeue == [kind |-> "DoNotRequeue", minutes |-> 0]
RequeueAfter(m) == [kind |-> "RequeueAfter", minutes |-> m]

----
(* Pure parts of the code *)

\* Faulty variant: a value that does not parse counts as false
ParseBool_ErrIsFalse(s) ==
    IF s \in {"1", "t", "T", "TRUE", "true", "True"} THEN [ok |-> TRUE, val |-> TRUE]
    ELSE [ok |-> TRUE, val |-> FALSE]

\* strconv.ParseBool as used at lines 252 and 260.
ParseBool(s) ==
    IF s \in {"1", "t", "T", "TRUE", "true", "True"} THEN [ok |-> TRUE, val |-> TRUE]
    ELSE IF s \in {"0", "f", "F", "FALSE", "false", "False"} THEN [ok |-> TRUE, val |-> FALSE]
    ELSE [ok |-> FALSE, val |-> FALSE]

\* Faulty variant: the pool-ownership check is missing
ShortCircuit_BYOCOnly(acct) ==
    IF IsBYOC(acct) THEN "InvalidAccount" ELSE Nil

\* The short-circuit checks of ValidateAccountOU (lines 199-213): the
\* classified error, or nil when the account is to be checked.
ShortCircuit(acct) ==
    IF IsBYOC(acct) THEN "InvalidAccount"
    ELSE IF IsOwnedByAccountPool(acct) THEN "InvalidAccount"
    ELSE Nil

\* Faulty variant: no OU counts as the pool OU
isPoolOU_Never(s) == FALSE

\* The stop predicate ValidateAccountOU hands to the walk (lines 216-218).
isPoolOU(s) == s = PoolOU

\* Faulty variant: the parent that satisfies the predicate is not appended
HopOutcome_MatchNotAppended(id, out, path) ==
    IF Len(out) = 0
    THEN [done |-> TRUE, err |-> NilErr, path |-> path, next |-> id]
    ELSE IF Len(out) > 1
    THEN [done |-> TRUE, err |-> MoreThanOneParentErr(id), path |-> path, next |-> id]
    ELSE IF isPoolOU(out[1])
    THEN [done |-> TRUE, err |-> NilErr, path |-> path, next |-> id]
    ELSE [done |-> FALSE, err |-> NoErr, path |-> Append(path, out[1]), next |-> out[1]]

\* Faulty variant: of several parents the first is followed
HopOutcome_FirstOfMany(id, out, path) ==
    IF Len(out) = 0
    THEN [done |-> TRUE, err |-> NilErr, path |-> path, next |-> id]
    ELSE IF isPoolOU(out[1])
    THEN [done |-> TRUE, err |-> NilErr, path |-> Append(path, out[1]), next |-> id]
    ELSE [done |-> FALSE, err |-> NoErr, path |-> Append(path, out[1]), next |-> out[1]]

\* Faulty variant: the recursive call looks the same node up again
HopOutcome_SameNodeAgain(id, out, path) ==
    IF Len(out) = 0
    THEN [done |-> TRUE, err |-> NilErr, path |-> path, next |-> id]
    ELSE IF Len(out) > 1
    THEN [done |-> TRUE, err |-> MoreThanOneParentErr(id), path |-> path, next |-> id]
    ELSE IF isPoolOU(out[1])
    THEN [done |-> TRUE, err |-> NilErr, path |-> Append(path, out[1]), next |-> id]
    ELSE [done |-> FALSE, err |-> NoErr, path |-> Append(path, out[1]), next |-> id]

\* One call of ParentsTillPredicate for awsId id after its lookup answered
\* out (lines 108-121): the path, the error returned, and the node the
\* recursive call goes on with when the call does not return itself.
HopOutcome(id, out, path) ==
    IF Len(out) = 0
    THEN [done |-> TRUE, err |-> NilErr, path |-> path, next |-> id]
    ELSE IF Len(out) > 1
    THEN [done |-> TRUE, err |-> MoreThanOneParentErr(id), path |-> path, next |-> id]
    ELSE IF isPoolOU(out[1])
    THEN [done |-> TRUE, err |-> NilErr, path |-> Append(path, out[1]), next |-> id]
    ELSE [done |-> FALSE, err |-> NoErr, path |-> Append(path, out[1]), next |-> out[1]]

\* Faulty variant: the length test is off by one
InPoolDecision_OffByOne(err, path) ==
    IF err # NilErr THEN FALSE
    ELSE IF Len(path) = 0 THEN TRUE
    ELSE FALSE

\* Faulty variant: the error of the walk is not looked at
InPoolDecision_ErrIgnored(err, path) ==
    IF Len(path) = 1 THEN TRUE
    ELSE FALSE

\* The decision of IsAccountInPoolOU once the walk has returned (lines 132-138).
InPoolDecision(err, path) ==
    IF err # NilErr THEN FALSE
    ELSE IF Len(path) = 1 THEN TRUE
    ELSE FALSE

\* Faulty variant: only the first tag is examined
ScanTags_FirstOnly(tagList, i, shard) ==
    IF Len(tagList) = 0 THEN "MissingTag"
    ELSE IF ownerKey = tagList[1].Key
         THEN (IF shard # tagList[1].Value THEN "IncorrectOwnerTag" ELSE Nil)
         ELSE "MissingTag"

\* The scan of ValidateAccountTags over the answered tags (lines 180-195),
\* from position i on.
RECURSIVE ScanTags(_, _, _)
ScanTags(tagList, i, shard) ==
    IF i > Len(tagList) THEN "MissingTag"
    ELSE IF ownerKey = tagList[i].Key
         THEN (IF shard # tagList[i].Value THEN "IncorrectOwnerTag" ELSE Nil)
         ELSE ScanTags(tagList, i + 1, shard)

\* Faulty variant: the gate is ignored
MoveDecision_Always(enabled) == "move"

\* Faulty variant: the gate is read the wrong way round
MoveDecision_Inverted(enabled) == IF enabled THEN "dryRun" ELSE "move"

\* MoveAccount: move or dry run (lines 151, 163)
MoveDecision(enabled) == IF enabled THEN "move" ELSE "dryRun"

\* Faulty variant: source and destination exchanged
MoveAccountInput_Swapped(id, targetOU, old) == Call("MoveAccount", id, targetOU, old)

\* MoveAccount: the request it sends (lines 153-157)
MoveAccountInput(id, targetOU, old) == Call("MoveAccount", id, old, targetOU)

\* Faulty variant: a failed move does not end the run
OUStageResult_MoveFailedGoesOn(err) ==
    IF err = "InvalidAccount" THEN DoNotRequeue
    ELSE NoResult

\* Faulty variant: an account out of scope still has its tags checked
OUStageResult_InvalidGoesOn(err) ==
    IF err = "AccountMoveFailed" THEN RequeueAfter(moveWaitTime)
    ELSE NoResult

\* The requeue decision of Reconcile after ValidateAccountOU (lines 280-291):
\* the result returned at once, or NoResult when the run goes on.
OUStageResult(err) ==
    IF err = "InvalidAccount" THEN DoNotRequeue
    ELSE IF err = "AccountMoveFailed" THEN RequeueAfter(moveWaitTime)
    ELSE NoResult

\* Faulty variant: a missing owner tag is retried
TagStageResult_RequeueOnMissing(err) ==
    IF err = "MissingTag" THEN RequeueAfter(moveWaitTime)
    ELSE DoNotRequeue

\* The requeue decision of Reconcile after ValidateAccountTags (lines 294-300).
TagStageResult(err) ==
    IF err \in {"MissingTag", "IncorrectOwnerTag"} THEN DoNotRequeue
    ELSE DoNotRequeue

----
(* Steps of one reconciliation run p *)

Goto(p, where) == pc' = [pc EXCEPT ![p] = where]

\* A return of Reconcile.
Return(p, res) ==
    /\ result' = [result EXCEPT ![p] = res]
    /\ Goto(p, "done")

\* What follows ValidateAccountOU returning err (lines 279-293).
AfterOU(p, err) ==
    /\ ouErr' = [ouErr EXCEPT ![p] = err]
    /\ IF OUStageResult(err) # NoResult
       THEN Return(p, OUStageResult(err))
       ELSE /\ Goto(p, "tags")
            /\ UNCHANGED result

\* r.Client.Get (lines 239-244)
GetAccount(p) ==
    /\ pc[p] = "start"
    /\ \E ok \in BOOLEAN :
         IF ok
         THEN /\ account' = [account EXCEPT ![p] = store[p]]
              /\ Goto(p, "config")
              /\ UNCHANGED <<setupErr, result>>
         ELSE /\ setupErr' = [setupErr EXCEPT ![p] = "AccountGetError"]
              /\ Return(p, DoNotRequeue)
              /\ UNCHANGED account
    /\ UNCHANGED <<parents, envVars, gateVars, cmData, walkVars, moverVars,
                   ouErr, tagErr, calls>>
    /\ UNCHANGED histVars

\* utils.GetOperatorConfigMap (lines 246-250)
GetOperatorConfigMap(p) ==
    /\ pc[p] = "config"
    /\ \E ok \in BOOLEAN :
         IF ok
         THEN /\ \E cm \in ConfigMaps : cmData' = [cmData EXCEPT ![p] = cm]
              /\ Goto(p, "parseMove")
              /\ UNCHANGED <<setupErr, result>>
         ELSE /\ setupErr' = [setupErr EXCEPT ![p] = "ConfigMapError"]
              /\ Return(p, RequeueAfter(5))
              /\ UNCHANGED cmData
    /\ UNCHANGED <<parents, envVars, gateVars, account, walkVars, moverVars,
                   ouErr, tagErr, calls>>
    /\ UNCHANGED histVars

\* The relocation gate (lines 252-258).  The key is not read again in the
\* run, so the copy drops it.
ParseMoveGate(p) ==
    /\ pc[p] = "parseMove"
    /\ LET parsed == ParseBool(cmData[p].move)
       IN  accountMoveEnabled' = IF parsed.ok THEN parsed.val ELSE accountMoveEnabled
    /\ moveRead' = [moveRead EXCEPT ![p] =
                      IF ~ParseBool(cmData[p].move).ok THEN "err"
                      ELSE IF ParseBool(cmData[p].move).val THEN "true" ELSE "false"]
    /\ UNCHANGED movedBefore
    /\ cmData' = [cmData EXCEPT ![p].move = ""]
    /\ Goto(p, "parseTag")
    /\ UNCHANGED <<parents, envVars, accountTagEnabled, account, walkVars, moverVars,
                   setupErr, ouErr, tagErr, result, calls>>

\* The tagging gate (lines 260-266).  The key is not read again in the run,
\* so the copy drops it.
ParseTagGate(p) ==
    /\ pc[p] = "parseTag"
    /\ LET parsed == ParseBool(cmData[p].tag)
       IN  accountTagEnabled' = IF parsed.ok THEN parsed.val ELSE accountTagEnabled
    /\ cmData' = [cmData EXCEPT ![p].tag = ""]
    /\ Goto(p, "validateOU")
    /\ UNCHANGED <<parents, envVars, accountMoveEnabled, account, walkVars, moverVars,
                   setupErr, ouErr, tagErr, result, calls>>
    /\ UNCHANGED histVars

\* ValidateAccountOU up to the walk (lines 198-218) and the entry of
\* IsAccountInPoolOU (lines 126-131)
ValidateAccountOU(p) ==
    /\ pc[p] = "validateOU"
    /\ IF ShortCircuit(account[p]) # Nil
       THEN /\ AfterOU(p, ShortCircuit(account[p]))
            /\ UNCHANGED walkVars
       ELSE IF account[p].AwsAccountID = ""
       THEN /\ inPool' = [inPool EXCEPT ![p] = FALSE]
            /\ Goto(p, "notInPool")
            /\ UNCHANGED <<awsId, parentList, walkErr, ouErr, result>>
       ELSE /\ parentList' = [parentList EXCEPT ![p] = <<>>]
            /\ awsId' = [awsId EXCEPT ![p] = account[p].AwsAccountID]
            /\ Goto(p, "walk")
            /\ UNCHANGED <<walkErr, inPool, ouErr, result>>
    /\ UNCHANGED <<parents, envVars, gateVars, account, cmData, moverVars,
                   setupErr, tagErr, calls>>
    /\ UNCHANGED histVars

\* One call of ParentsTillPredicate (lines 100-122)
ParentsTillPredicate(p) ==
    /\ pc[p] = "walk"
    /\ Len(parentList[p]) < MaxDepth
    /\ calls' = [calls EXCEPT ![p] = Append(@, Call("ListParents", awsId[p], "", ""))]
    /\ \E ok \in ListParentsAnswers(awsId[p]) :
         IF ~ok
         THEN /\ walkErr' = [walkErr EXCEPT ![p] = ListParentsErr]
              /\ Goto(p, "walked")
              /\ UNCHANGED <<awsId, parentList>>
         ELSE LET hop == HopOutcome(awsId[p], parents[awsId[p]], parentList[p]) IN
              /\ parentList' = [parentList EXCEPT ![p] = hop.path]
              /\ awsId' = [awsId EXCEPT ![p] = hop.next]
              /\ IF hop.done
                 THEN /\ walkErr' = [walkErr EXCEPT ![p] = hop.err]
                      /\ Goto(p, "walked")
                 ELSE UNCHANGED <<walkErr, pc>>
    /\ UNCHANGED <<parents, envVars, gateVars, account, cmData, inPool, moverVars,
                   setupErr, ouErr, tagErr, result>>
    /\ UNCHANGED histVars

\* The return of IsAccountInPoolOU (lines 132-139)
IsAccountInPoolOU(p) ==
    /\ pc[p] = "walked"
    /\ inPool' = [inPool EXCEPT ![p] = InPoolDecision(walkErr[p], parentList[p])]
    /\ Goto(p, IF InPoolDecision(walkErr[p], parentList[p]) THEN "inPool" ELSE "notInPool")
    /\ UNCHANGED <<parents, envVars, gateVars, account, cmData, awsId, parentList,
                   walkErr, moverVars, setupErr, ouErr, tagErr, result, calls>>
    /\ UNCHANGED histVars

\* ValidateAccountOU, the account is in the pool OU (lines 219-220, 232)
AlreadyInPool(p) ==
    /\ pc[p] = "inPool"
    /\ AfterOU(p, Nil)
    /\ UNCHANGED <<parents, envVars, gateVars, account, cmData, walkVars, moverVars,
                   setupErr, tagErr, calls>>
    /\ UNCHANGED histVars

\* ValidateAccountOU calls MoveAccount (line 223); MoveAccount looks up the
\* current parent (lines 141-150)
MoveAccountLookup(p) ==
    /\ pc[p] = "notInPool"
    /\ moveAccount' = [moveAccount EXCEPT ![p] = accountMoveEnabled]
    /\ calls' = [calls EXCEPT ![p] =
                   Append(@, Call("ListParents", account[p].AwsAccountID, "", ""))]
    /\ \E ok \in ListParentsAnswers(account[p].AwsAccountID) :
         IF ~ok
         THEN /\ moveErr' = [moveErr EXCEPT ![p] = "ListParentsError"]
              /\ AfterOU(p, "AccountMoveFailed")
              /\ UNCHANGED oldOu
         ELSE LET out == parents[account[p].AwsAccountID] IN
              IF Len(out) = 0
              THEN \* Parents[0] of an empty list: index out of range
                   /\ moveErr' = [moveErr EXCEPT ![p] = "panic"]
                   /\ Goto(p, "panicked")
                   /\ UNCHANGED <<oldOu, ouErr, result>>
              ELSE /\ oldOu' = [oldOu EXCEPT ![p] = out[1]]
                   /\ IF MoveDecision(accountMoveEnabled) = "move"
                      THEN /\ Goto(p, "move")
                           /\ UNCHANGED <<moveErr, ouErr, result>>
                      ELSE /\ moveErr' = [moveErr EXCEPT ![p] = Nil]
                           /\ AfterOU(p, Nil)
    /\ UNCHANGED <<parents, envVars, gateVars, account, cmData, walkVars,
                   setupErr, tagErr>>
    /\ UNCHANGED histVars

\* MoveAccount issues the reparent request (lines 151-162, 166)
MoveAccountRequest(p) ==
    /\ pc[p] = "move"
    /\ calls' = [calls EXCEPT ![p] =
                   Append(@, MoveAccountInput(account[p].AwsAccountID, PoolOU, oldOu[p]))]
    /\ \E ok \in BOOLEAN :
         IF ok
         THEN /\ parents' = Reparented(parents, calls'[p][Len(calls'[p])].id,
                                       calls'[p][Len(calls'[p])].dst)
              /\ moveErr' = [moveErr EXCEPT ![p] = Nil]
              /\ AfterOU(p, Nil)
         ELSE /\ moveErr' = [moveErr EXCEPT ![p] = "MoveAccountError"]
              /\ AfterOU(p, "AccountMoveFailed")
              /\ UNCHANGED parents
    /\ UNCHANGED <<envVars, gateVars, account, cmData, walkVars, moveAccount, oldOu,
                   setupErr, tagErr>>
    /\ UNCHANGED histVars

\* Faulty variant: with the tagging gate true a wrong or missing owner tag is repaired
ValidateAccountTags_GateFixes(p) ==
    /\ pc[p] = "tags"
    /\ calls' = [calls EXCEPT ![p] =
                   Append(@, Call("ListTagsForResource", account[p].AwsAccountID, "", ""))]
    /\ \E ok \in BOOLEAN :
         LET found == IF ok THEN ScanTags(tags[p], 1, shardName) ELSE "ListTagsError"
             fix == ok /\ accountTagEnabled /\ found # Nil
             err == IF fix THEN Nil ELSE found
         IN
         /\ tagErr' = [tagErr EXCEPT ![p] = err]
         /\ tags' = IF fix
                    THEN [tags EXCEPT ![p] = <<[Key |-> ownerKey, Value |-> shardName]>>]
                    ELSE tags
         /\ Return(p, TagStageResult(err))
    /\ UNCHANGED <<parents, store, shardName, gateVars, account, cmData, walkVars,
                   moverVars, setupErr, ouErr>>
    /\ UNCHANGED histVars

\* ValidateAccountTags and the end of Reconcile (lines 170-196, 293-300)
ValidateAccountTags(p) ==
    /\ pc[p] = "tags"
    /\ calls' = [calls EXCEPT ![p] =
                   Append(@, Call("ListTagsForResource", account[p].AwsAccountID, "", ""))]
    /\ \E ok \in BOOLEAN :
         LET err == IF ok THEN ScanTags(tags[p], 1, shardName) ELSE "ListTagsError" IN
         /\ tagErr' = [tagErr EXCEPT ![p] = err]
         /\ Return(p, TagStageResult(err))
    /\ UNCHANGED <<parents, envVars, gateVars, account, cmData, walkVars, moverVars,
                   setupErr, ouErr>>
    /\ UNCHANGED histVars

\* The framework starts the next reconciliation of the same request (line 70).
NextReconcile(p) ==
    /\ pc[p] = "done"
    /\ Goto(p, "start")
    /\ account' = [account EXCEPT ![p] = NoAccount]
    /\ cmData' = [cmData EXCEPT ![p] = NoConfig]
    /\ awsId' = [awsId EXCEPT ![p] = ""]
    /\ parentList' = [parentList EXCEPT ![p] = <<>>]
    /\ walkErr' = [walkErr EXCEPT ![p] = NoErr]
    /\ inPool' = [inPool EXCEPT ![p] = FALSE]
    /\ moveAccount' = [moveAccount EXCEPT ![p] = FALSE]
    /\ oldOu' = [oldOu EXCEPT ![p] = ""]
    /\ moveErr' = [moveErr EXCEPT ![p] = None]
    /\ setupErr' = [setupErr EXCEPT ![p] = None]
    /\ ouErr' = [ouErr EXCEPT ![p] = None]
    /\ tagErr' = [tagErr EXCEPT ![p] = None]
    /\ result' = [result EXCEPT ![p] = NoResult]
    /\ calls' = [calls EXCEPT ![p] = NoCalls]
    /\ moveRead' = [moveRead EXCEPT ![p] = None]
    /\ movedBefore' = [movedBefore EXCEPT ![p] =
                         @ \/ (moveErr[p] = Nil
                               /\ \E i \in DOMAIN calls[p] : calls[p][i].op = "MoveAccount")]
    /\ UNCHANGED <<parents, envVars, gateVars>>

----
(* Initial states *)

\* Answers of a parent lookup: lists of distinct OUs.
ParentAnswers(S) == DistinctSeqs(S, MaxParents)

\* The parent lists of the OUs: no OU is its own parent.  The parents of the
\* pool OU are never looked up (a walk stops there); two shapes are kept.
UpLinks ==
    { u \in [OUs -> ParentAnswers(OUs)] :
        /\ \A o \in OUs : \A i \in DOMAIN u[o] : u[o][i] # o
        /\ u[PoolOU] \in {<<>>, <<"OU1">>} }

TreeOf(a, u) == [n \in Nodes |-> IF n = "A" THEN a ELSE IF n = "B" THEN <<PoolOU>> ELSE u[n]]

Trees == { TreeOf(a, u) : a \in ParentAnswers(OUs), u \in UpLinks }

RootOnly == [o \in OUs |-> <<>>]
SomeTrees ==
    { TreeOf(<<PoolOU>>, RootOnly),
      TreeOf(<<"OU3">>, [RootOnly EXCEPT !["OU3"] = <<"OU1">>]),
      TreeOf(<<>>, RootOnly) }

InScope == [AwsAccountID |-> "A", BYOC |-> FALSE, OwnedByPool |-> FALSE]
OwnerTag == <<[Key |-> ownerKey, Value |-> "shardX"]>>

\* The runs of request 1 over every tree, over every Account object, and
\* over every tag list and shard name.
Scenarios ==
    ({ <<t, InScope, OwnerTag, "shardX">> : t \in Trees })
    \cup ({ <<t, a, OwnerTag, "shardX">> : t \in SomeTrees,
              a \in { x \in Accounts : x.AwsAccountID \in {"A", ""} } })
    \cup ({ <<t, InScope, tl, sh>> : t \in SomeTrees, tl \in TagLists, sh \in ShardNames })

InitRuns(started) ==
    /\ accountMoveEnabled = FALSE
    /\ accountTagEnabled = FALSE
    /\ pc = [p \in Procs |-> IF p \in started THEN "start" ELSE "idle"]
    /\ account = [p \in Procs |-> NoAccount]
    /\ cmData = [p \in Procs |-> NoConfig]
    /\ awsId = [p \in Procs |-> ""]
    /\ parentList = [p \in Procs |-> <<>>]
    /\ walkErr = [p \in Procs |-> NoErr]
    /\ inPool = [p \in Procs |-> FALSE]
    /\ moveAccount = [p \in Procs |-> FALSE]
    /\ oldOu = [p \in Procs |-> ""]
    /\ moveErr = [p \in Procs |-> None]
    /\ setupErr = [p \in Procs |-> None]
    /\ ouErr = [p \in Procs |-> None]
    /\ tagErr = [p \in Procs |-> None]
    /\ result = [p \in Procs |-> NoResult]
    /\ calls = [p \in Procs |-> NoCalls]
    /\ moveRead = [p \in Procs |-> None]
    /\ movedBefore = [p \in Procs |-> FALSE]

Init ==
    /\ InitRuns({1})
    /\ \E sc \in Scenarios :
         /\ parents = sc[1]
         /\ store = [p \in Procs |-> IF p = 1 THEN sc[2]
                                     ELSE [AwsAccountID |-> "B", BYOC |-> FALSE, OwnedByPool |-> FALSE]]
         /\ tags = [p \in Procs |-> IF p = 1 THEN sc[3] ELSE OwnerTag]
         /\ shardName = sc[4]

Next ==
    \E p \in Procs :
        \/ GetAccount(p)
        \/ GetOperatorConfigMap(p)
        \/ ParseMoveGate(p)
        \/ ParseTagGate(p)
        \/ ValidateAccountOU(p)
        \/ ParentsTillPredicate(p)
        \/ IsAccountInPoolOU(p)
        \/ AlreadyInPool(p)
        \/ MoveAccountLookup(p)
        \/ MoveAccountRequest(p)
        \/ ValidateAccountTags(p)
        \/ NextReconcile(p)

Spec == Init /\ [][Next]_vars

\* Two requests reconciled at the same time by two workers of the controller
\* (line 65): account A two levels away from the pool OU or under it,
\* account B under the pool OU.  The workers share the two gates.
ConcTrees ==
    { TreeOf(<<"OU3">>, [RootOnly EXCEPT !["OU3"] = <<"OU1">>]),
      TreeOf(<<PoolOU>>, RootOnly) }

InitConc ==
    /\ InitRuns(Procs)
    /\ parents \in ConcTrees
    /\ store = [p \in Procs |-> [AwsAccountID |-> IdOf[p], BYOC |-> FALSE,
                                  OwnedByPool |-> FALSE]]
    /\ tags = [p \in Procs |-> OwnerTag]
    /\ shardName = "shardX"

SpecConc == InitConc /\ [][Next]_vars

----
(* Vocabulary of the properties *)

\* The cloud identifier run p works on.
IdIn(p) == account[p].AwsAccountID

\* The positions of the calls of kind op in run p's log.
CallsOf(p, op) == { i \in DOMAIN calls[p] : calls[p][i].op = op }

\* Run p is in scope of the OU check: fetched, neither BYOC nor pool-owned.
InScopeRun(p) ==
    /\ pc[p] \notin {"idle", "start"}
    /\ setupErr[p] = None
    /\ ~IsBYOC(account[p])
    /\ ~IsOwnedByAccountPool(account[p])

\* Run p has refreshed the relocation gate.
PastGate(p) ==
    /\ setupErr[p] = None
    /\ pc[p] \notin {"idle", "start", "config", "parseMove"}

\* IsAccountInPoolOU has just returned in run p; the tree is the one it walked.
MembershipDecided(p) == pc[p] \in {"inPool", "notInPool"}

\* ValidateAccountOU has returned in run p.
OUStageOver(p) == ouErr[p] # None

\* The immediate parent of node n is the pool OU.
ParentIsPool(n) == n \in Nodes /\ parents[n] = <<PoolOU>>

----
(* C1 *)

\* C1 (as claimed): whenever the membership check has returned after a walk
\* whose parent lookups were all answered, it returned true if and only if
\* the account has a cloud identifier and its immediate parent is the pool
\* OU.  (The claim speaks of every tree; a violation on answered lookups
\* violates it a fortiori.)
C1_MembershipIffParentIsPool ==
    \A p \in Procs :
        (MembershipDecided(p) /\ walkErr[p] # ListParentsErr)
            => (inPool[p] <=> (IdIn(p) # "" /\ ParentIsPool(IdIn(p))))

----
(* C2 *)

\* C2 (as claimed): in a run whose relocation gate is false no MoveAccount
\* request is issued, the mover, once invoked, returns success, and no step
\* of the run changes the tree.
C2_GateOffMoverSucceeds ==
    /\ [](\A p \in Procs :
            (PastGate(p) /\ ~accountMoveEnabled)
                => /\ CallsOf(p, "MoveAccount") = {}
                   /\ moveErr[p] \in {None, Nil})
    /\ [][~accountMoveEnabled => parents' = parents]_vars

\* C2 (amended): in a run whose relocation gate is false no MoveAccount
\* request is issued and no step changes the tree; the mover, once invoked,
\* returns success exactly when its parent lookup returned at least one
\* parent: a failed lookup is returned as the mover's error, and a lookup
\* that answers no parent ends the run inside the mover.
C2_GateOffNoReparent ==
    /\ [](\A p \in Procs :
            (PastGate(p) /\ ~accountMoveEnabled)
                => /\ CallsOf(p, "MoveAccount") = {}
                   /\ moveErr[p] \in {None, Nil, "ListParentsError", "panic"}
                   /\ moveErr[p] = Nil
                        => /\ IdIn(p) \in Nodes
                           /\ parents[IdIn(p)] # <<>>
                           /\ oldOu[p] = parents[IdIn(p)][1]
                           /\ ouErr[p] = Nil
                   /\ moveErr[p] = "panic" => parents[IdIn(p)] = <<>>
                   /\ moveErr[p] = "ListParentsError" => ouErr[p] = "AccountMoveFailed"
                   /\ moveErr[p] # None => (moveErr[p] = Nil <=> oldOu[p] # ""))
    /\ [][~accountMoveEnabled => parents' = parents]_vars

\* C2 witness: a dry run: the gate is false, the account is not under the
\* pool OU, the mover returned success and the run is over.
C2_Witness ==
    \E p \in Procs :
        /\ pc[p] = "done"
        /\ ~accountMoveEnabled
        /\ ~inPool[p]
        /\ moveErr[p] = Nil
        /\ oldOu[p] = "OU3"
        /\ parents[IdIn(p)] = <<"OU3">>
        /\ CallsOf(p, "MoveAccount") = {}

----
(* C3 *)

\* The mover was invoked in the in-scope run p and is over.
MoverOver(p) ==
    /\ InScopeRun(p)
    /\ ~inPool[p]
    /\ pc[p] \in {"tags", "done", "panicked"}

\* The MoveAccount requests of run p name the account, leave from the parent
\* the mover looked up and go to the pool OU.
ReparentWellFormed(p) ==
    \A i \in CallsOf(p, "MoveAccount") :
        calls[p][i] = [op |-> "MoveAccount", id |-> IdIn(p), src |-> oldOu[p], dst |-> PoolOU]

\* While the request is pending, the looked-up parent is the account's
\* current (first reported) parent.
OldOuIsCurrentParent(p) ==
    pc[p] = "move" => /\ IdIn(p) \in Nodes
                      /\ parents[IdIn(p)] # <<>>
                      /\ oldOu[p] = parents[IdIn(p)][1]

\* C3 (as claimed): every run of an in-scope account whose membership check
\* was false under an enabled relocation gate has issued exactly one
\* MoveAccount request, for that account, from its current parent to the
\* pool OU; no run issues more than one.
C3_ExactlyOneReparent ==
    \A p \in Procs :
        /\ Cardinality(CallsOf(p, "MoveAccount")) <= 1
        /\ ReparentWellFormed(p)
        /\ OldOuIsCurrentParent(p)
        /\ (MoverOver(p) /\ accountMoveEnabled)
               => Cardinality(CallsOf(p, "MoveAccount")) = 1

\* C3 (amended): in such a run exactly one MoveAccount request is issued if
\* the mover's parent lookup returned a parent (the source of the request is
\* the first parent returned, its destination the pool OU), and none
\* otherwise; no run issues more than one.
C3_OneReparentIfParentFound ==
    \A p \in Procs :
        /\ Cardinality(CallsOf(p, "MoveAccount")) <= 1
        /\ ReparentWellFormed(p)
        /\ OldOuIsCurrentParent(p)
        /\ (MoverOver(p) /\ accountMoveEnabled)
               => /\ oldOu[p] # "" => Cardinality(CallsOf(p, "MoveAccount")) = 1
                  /\ oldOu[p] = "" => /\ CallsOf(p, "MoveAccount") = {}
                                      /\ moveErr[p] \in {"ListParentsError", "panic"}

\* C3 witness: a finished run that moved account A from OU3 to the pool OU.
C3_Witness ==
    \E p \in Procs :
        /\ pc[p] = "done"
        /\ accountMoveEnabled
        /\ MoverOver(p)
        /\ moveErr[p] = Nil
        /\ \E i \in DOMAIN calls[p] :
             calls[p][i] = [op |-> "MoveAccount", id |-> "A", src |-> "OU3", dst |-> PoolOU]
        /\ parents["A"] = <<PoolOU>>

----
(* C4 *)

\* The walk of run p is over and the tree is still the one it walked.
WalkedThisTree(p) ==
    /\ InScopeRun(p)
    /\ IdIn(p) # ""
    /\ pc[p] \in {"inPool", "notInPool", "move", "tags", "done", "panicked"}
    /\ CallsOf(p, "MoveAccount") = {}

\* The membership check was true, the mover was not invoked (no lookup of
\* its own, no request), and the run went on to the tag check.
TrueAndNoMove(p) ==
    /\ inPool[p]
    /\ moveErr[p] = None
    /\ Cardinality(CallsOf(p, "ListParents")) = 1
    /\ pc[p] \in {"inPool", "tags", "done"}
    /\ pc[p] \in {"tags", "done"} => ouErr[p] = Nil
    /\ pc[p] = "done" => /\ CallsOf(p, "ListTagsForResource") # {}
                         /\ tagErr[p] # None

\* C4 (as claimed): for every in-scope account whose immediate parent is the
\* pool OU the membership check is true, the mover is not invoked and the
\* run proceeds to the tag check.
C4_ParentIsPoolNoMove ==
    \A p \in Procs :
        (WalkedThisTree(p) /\ ParentIsPool(IdIn(p))) => TrueAndNoMove(p)

\* C4 (amended): the same, provided the parent lookup of the walk was
\* answered; when it fails the membership check is false and the mover is
\* invoked.
C4_ParentIsPoolAnsweredNoMove ==
    \A p \in Procs :
        (WalkedThisTree(p) /\ ParentIsPool(IdIn(p)))
            => IF walkErr[p] # ListParentsErr
               THEN TrueAndNoMove(p)
               ELSE ~inPool[p] /\ (pc[p] # "notInPool" => moveErr[p] # None \/ pc[p] = "move")

\* C4 witness: a finished run of an account directly under the pool OU: one
\* parent lookup, then the tag lookup.
C4_Witness ==
    \E p \in Procs :
        /\ pc[p] = "done"
        /\ inPool[p]
        /\ ParentIsPool(IdIn(p))
        /\ calls[p] = << Call("ListParents", "A", "", ""),
                         Call("ListTagsForResource", "A", "", "") >>

----
(* C5 *)

\* C5: a run for a bring-your-own-cloud or pool-owned account never calls
\* the tree service or the tag service, and once it has fetched the account
\* and the config map it ends with InvalidAccount and no requeue.
C5_OutOfScopeInvalidAccount ==
    \A p \in Procs :
        (IsBYOC(store[p]) \/ IsOwnedByAccountPool(store[p]))
            => /\ calls[p] = NoCalls
               /\ pc[p] \in {"idle", "start", "config", "parseMove", "parseTag",
                             "validateOU", "done"}
               /\ (pc[p] = "done" /\ setupErr[p] = None)
                    => /\ ouErr[p] = "InvalidAccount"
                       /\ tagErr[p] = None
                       /\ result[p] = DoNotRequeue

\* C5 witness: a finished run of a pool-owned account that is not BYOC.
C5_Witness ==
    \E p \in Procs :
        /\ pc[p] = "done"
        /\ IsOwnedByAccountPool(account[p])
        /\ ~IsBYOC(account[p])
        /\ ouErr[p] = "InvalidAccount"
        /\ result[p] = DoNotRequeue

----
(* C6 *)

\* C6: whenever the mover returned an error in a run (from its parent lookup
\* or from its MoveAccount request), the run classified AccountMoveFailed,
\* returned requeue-after 5 minutes and never called the tag service.
C6_MoverFailureRequeues ==
    \A p \in Procs :
        moveErr[p] \in {"ListParentsError", "MoveAccountError"}
            => /\ ouErr[p] = "AccountMoveFailed"
               /\ pc[p] = "done"
               /\ result[p] = [kind |-> "RequeueAfter", minutes |-> 5]
               /\ CallsOf(p, "ListTagsForResource") = {}
               /\ tagErr[p] = None

\* C6 witness: a run whose MoveAccount request failed.
C6_Witness ==
    \E p \in Procs :
        /\ moveErr[p] = "MoveAccountError"
        /\ CallsOf(p, "MoveAccount") # {}
        /\ pc[p] = "done"

----
(* C7 *)

HasOwnerKey(tl) == \E i \in DOMAIN tl : tl[i].Key = "owner"
OwnerIs(tl, owner) == \E i \in DOMAIN tl : tl[i].Key = "owner" /\ tl[i].Value = owner

\* C7: for every tag set the validator fetched and every expected owner, it
\* returned success exactly when the set has an "owner" key with the expected
\* owner as value, IncorrectOwnerTag exactly when it has an "owner" key with
\* another value, and MissingTag exactly when it has no "owner" key.
C7_TagClassification ==
    \A p \in Procs :
        tagErr[p] \notin {None, "ListTagsError"}
            => /\ tagErr[p] = Nil <=> OwnerIs(tags[p], shardName)
               /\ tagErr[p] = "IncorrectOwnerTag"
                    <=> (HasOwnerKey(tags[p]) /\ ~OwnerIs(tags[p], shardName))
               /\ tagErr[p] = "MissingTag" <=> ~HasOwnerKey(tags[p])

\* C7 witness: the owner tag comes second and names another shard.
C7_Witness ==
    \E p \in Procs :
        /\ tagErr[p] = "IncorrectOwnerTag"
        /\ shardName = "shardX"
        /\ tags[p] = << [Key |-> "team", Value |-> "shardX"],
                        [Key |-> "owner", Value |-> "shardY"] >>

----
(* C8 *)

\* C8: a reconciliation returns requeue-after (of 5 minutes) exactly when
\* the config map fetch failed or the OU stage classified AccountMoveFailed;
\* every other return is no-requeue.
C8_RequeueExactly ==
    \A p \in Procs :
        /\ result[p].kind = "RequeueAfter"
             <=> (setupErr[p] = "ConfigMapError" \/ ouErr[p] = "AccountMoveFailed")
        /\ result[p].kind = "RequeueAfter" => result[p].minutes = 5
        /\ pc[p] = "done" => result[p].kind \in {"DoNotRequeue", "RequeueAfter"}
        /\ ( \/ setupErr[p] = "AccountGetError"
             \/ ouErr[p] = "InvalidAccount"
             \/ tagErr[p] \in {"MissingTag", "IncorrectOwnerTag", "ListTagsError", Nil} )
             => /\ pc[p] = "done"
                /\ result[p] = [kind |-> "DoNotRequeue", minutes |-> 0]

\* C8 witness: the config map fetch failed and the run asked for a requeue
\* after 5 minutes.
C8_Witness ==
    \E p \in Procs :
        /\ pc[p] = "done"
        /\ setupErr[p] = "ConfigMapError"
        /\ result[p] = [kind |-> "RequeueAfter", minutes |-> 5]

----
(* C9 *)

\* Every node of the tree has at most one parent.
SingleParentTree == \A n \in Nodes : Len(parents[n]) <= 1

\* The first entry is the parent of start, each later one the parent of the
\* entry before it.
PathFollowsParents(start, path) ==
    \A i \in DOMAIN path :
        parents[IF i = 1 THEN start ELSE path[i - 1]] = <<path[i]>>

\* No entry before the last is the pool OU.
NoEarlierMatch(path) == \A i \in 1..(Len(path) - 1) : path[i] # PoolOU

\* The last entry is the pool OU or a node without parent.
EndsAtMatchOrRoot(path) ==
    path # <<>> => (path[Len(path)] = PoolOU \/ parents[path[Len(path)]] = <<>>)

WellFormedWalk(p) ==
    /\ walkErr[p] = NilErr
    /\ PathFollowsParents(IdIn(p), parentList[p])
    /\ NoEarlierMatch(parentList[p])
    /\ EndsAtMatchOrRoot(parentList[p])
    /\ parentList[p] = <<>> <=> parents[IdIn(p)] = <<>>

\* C9 (as claimed): on every tree whose nodes have at most one parent, a walk
\* that returned gave no error and a path that follows the parent links from
\* the start node, has no match of the stop predicate before its last entry,
\* ends at a match or at a node without parent, and is empty exactly when
\* the start node has no parent.
C9_WalkReturnsPathToMatchOrRoot ==
    \A p \in Procs :
        (pc[p] = "walked" /\ SingleParentTree) => WellFormedWalk(p)

\* C9 (amended): the same, provided every parent lookup of the walk was
\* answered; a failed lookup is returned as the walk's error, with the path
\* followed up to that lookup.
C9_AnsweredWalkReturnsPathToMatchOrRoot ==
    \A p \in Procs :
        (pc[p] = "walked" /\ SingleParentTree)
            => IF walkErr[p] # ListParentsErr
               THEN WellFormedWalk(p)
               ELSE /\ PathFollowsParents(IdIn(p), parentList[p])
                    /\ \A i \in DOMAIN parentList[p] : parentList[p][i] # PoolOU

\* C9 witness: a walk from A over OU3 to the root OU1, outside the pool OU.
C9_Witness ==
    \E p \in Procs :
        /\ pc[p] = "walked"
        /\ SingleParentTree
        /\ walkErr[p] = NilErr
        /\ parentList[p] = <<"OU3", "OU1">>
        /\ parents["OU1"] = <<>>

----
(* C10 *)

\* The first node with more than one parent on the way up from n, before the
\* pool OU or a root is reached ("" when there is none), within fuel hops.
RECURSIVE FirstFault(_, _)
FirstFault(n, fuel) ==
    IF fuel = 0 \/ Len(parents[n]) = 0 THEN ""
    ELSE IF Len(parents[n]) > 1 THEN n
    ELSE IF parents[n][1] = PoolOU THEN ""
    ELSE FirstFault(parents[n][1], fuel - 1)

\* The parent links from n up to the node target.
RECURSIVE PathUpTo(_, _)
PathUpTo(n, target) ==
    IF n = target THEN <<>> ELSE <<parents[n][1]>> \o PathUpTo(parents[n][1], target)

\* The lookups of a walk from start that built path and made one more call.
LookupsAlong(start, path) ==
    [i \in 1..(Len(path) + 1) |->
        Call("ListParents", IF i = 1 THEN start ELSE path[i - 1], "", "")]

\* C10: when a hop of the walk reports more than one parent before the stop
\* predicate has matched, the walk returns the error that names that node,
\* its last lookup is that hop's, and the path holds the nodes up to that
\* node and none of its parents; the error is the one the tree determines.
C10_MultiParentFailsWalk ==
    \A p \in Procs :
        pc[p] = "walked" =>
            LET fault == FirstFault(IdIn(p), Cardinality(Nodes)) IN
            /\ (walkErr[p] # ListParentsErr /\ fault # "")
                 => /\ walkErr[p] = [kind |-> "MoreThanOneParent", id |-> fault]
                    /\ parentList[p] = PathUpTo(IdIn(p), fault)
                    /\ calls[p] = LookupsAlong(IdIn(p), parentList[p])
            /\ walkErr[p].kind = "MoreThanOneParent"
                 => /\ walkErr[p].id = fault
                    /\ Len(parents[fault]) > 1

\* C10 witness: the second hop, at OU3, reports two parents.
C10_Witness ==
    \E p \in Procs :
        /\ pc[p] = "walked"
        /\ walkErr[p] = [kind |-> "MoreThanOneParent", id |-> "OU3"]
        /\ parentList[p] = <<"OU3">>
        /\ Len(calls[p]) = 2

----
(* C11 *)

\* The walk of run p ended on a hop that reported more than one parent.
MultiParentFault(p) ==
    /\ pc[p] \notin {"idle", "start", "config", "parseMove", "parseTag",
                     "validateOU", "walk"}
    /\ walkErr[p].kind = "MoreThanOneParent"

\* C11 (as claimed): a run whose ancestry walk met a hop with more than one
\* parent stops there: it issues no reparent request and no tag lookup, and
\* what it returns is no-requeue.
C11_MultiParentStopsRun ==
    \A p \in Procs :
        MultiParentFault(p) =>
            /\ CallsOf(p, "MoveAccount") = {}
            /\ CallsOf(p, "ListTagsForResource") = {}
            /\ pc[p] \notin {"notInPool", "move", "tags", "panicked"}
            /\ pc[p] = "done" => result[p] = DoNotRequeue

\* C11 (amended): a run whose ancestry walk met a hop with more than one
\* parent goes on as for any account that is not in the pool: the membership
\* check returns false, the run never takes the already-in-pool branch, the
\* mover is called, and the run ends as the mover and the tag stage decide:
\* requeue after moveWaitTime when the mover failed, and otherwise a tag
\* lookup followed by no-requeue.
C11_MultiParentGoesToMover ==
    \A p \in Procs :
        MultiParentFault(p) =>
            /\ pc[p] \in {"walked", "notInPool", "move", "tags", "done", "panicked"}
            /\ ~inPool[p]
            /\ pc[p] \in {"move", "tags", "done", "panicked"}
                 => /\ pc[p] = "move" <=> moveErr[p] = None
                    /\ Len(calls[p]) > Len(parentList[p]) + 1
                    /\ calls[p][Len(parentList[p]) + 2] = Call("ListParents", IdIn(p), "", "")
            /\ pc[p] = "tags" => moveErr[p] = Nil /\ ouErr[p] = Nil
            /\ pc[p] = "done" =>
                 \/ /\ moveErr[p] \in {"ListParentsError", "MoveAccountError"}
                    /\ ouErr[p] = "AccountMoveFailed"
                    /\ result[p] = RequeueAfter(moveWaitTime)
                    /\ CallsOf(p, "ListTagsForResource") = {}
                 \/ /\ moveErr[p] = Nil
                    /\ ouErr[p] = Nil
                    /\ CallsOf(p, "ListTagsForResource") = {Len(calls[p])}
                    /\ result[p] = DoNotRequeue

\* C11 witness: after a hop that reported two parents the run has sent a
\* reparent request and then looked the tags up.
C11_Witness ==
    \E p \in Procs :
        /\ MultiParentFault(p)
        /\ pc[p] = "done"
        /\ CallsOf(p, "MoveAccount") # {}
        /\ CallsOf(p, "ListTagsForResource") # {}
        /\ result[p] = DoNotRequeue

----
(* C12 *)

\* The value a gate has after a refresh that read s from the config map,
\* for the strings a config map of the model can hold: "true" and "0" parse,
\* the empty string (the key is absent) and "yes" do not.
Refreshed(s, old) ==
    CASE s = "true" -> TRUE
      [] s = "0"    -> FALSE
      [] OTHER      -> old

----
(* C13 *)

\* The account run p reconciles (the stored object has the same identifier
\* in every run of the request).
StoredId(p) == store[p].AwsAccountID

\* The membership check of run p has returned.
MembershipKnown(p) ==
    \/ pc[p] \in {"inPool", "notInPool", "move", "tags", "panicked"}
    \/ pc[p] = "done" /\ ouErr[p] # None

\* C13 (as claimed): once a reparent request of an earlier run of the same
\* account has succeeded, and nothing else has changed the tree, a run finds
\* the membership true and issues no reparent request.
C13_NoReparentAfterMove ==
    \A p \in Procs :
        movedBefore[p] =>
            /\ CallsOf(p, "MoveAccount") = {}
            /\ MembershipKnown(p)
                 => inPool[p]

\* C13 (amended): once a reparent request of an earlier run of the same
\* account has succeeded, and nothing else has changed the tree, the
\* account's parent is the pool OU and stays so; a run whose walk lookup is
\* answered finds the membership true and issues no reparent request; a run
\* whose walk lookup fails finds it false, and any reparent request it then
\* issues moves the account from the pool OU to the pool OU.
C13_NoReparentAfterMoveIfAnswered ==
    \A p \in Procs :
        movedBefore[p] =>
            /\ ParentIsPool(StoredId(p))
            /\ MembershipKnown(p)
                 => /\ walkErr[p] \in {NilErr, ListParentsErr}
                    /\ walkErr[p] = NilErr
                         => /\ inPool[p]
                            /\ CallsOf(p, "MoveAccount") = {}
                            /\ moveErr[p] = None
                    /\ walkErr[p] = ListParentsErr => ~inPool[p]
            /\ \A i \in CallsOf(p, "MoveAccount") :
                 calls[p][i] = Call("MoveAccount", StoredId(p), PoolOU, PoolOU)

\* C13 witness: after an earlier run moved the account, a run has found the
\* membership true and has finished without a reparent request.
C13_Witness ==
    \E p \in Procs :
        /\ movedBefore[p]
        /\ pc[p] = "done"
        /\ inPool[p]
        /\ walkErr[p] = NilErr
        /\ CallsOf(p, "MoveAccount") = {}

----
(* C14 *)

\* C14 (as claimed): whatever the tree service answers, no run aborts
\* part-way: a run is never left inside the mover without a return, and a
\* run whose mover was called and is over has returned a requeue decision.
C14_NoRunAborts ==
    \A p \in Procs :
        /\ pc[p] # "panicked"
        /\ (moveErr[p] # None /\ pc[p] \notin {"move", "tags"})
             => pc[p] = "done" /\ result[p] # NoResult

----
(* C15 *)

\* What the scan of a fetched tag list returns: the verdict on the first
\* "owner" tag of the list, or MissingTag when there is none.
OwnerVerdict(tl, owner) ==
    IF ~HasOwnerKey(tl) THEN "MissingTag"
    ELSE LET first == CHOOSE i \in DOMAIN tl :
                         /\ tl[i].Key = "owner"
                         /\ \A j \in 1..(i - 1) : tl[j].Key # "owner"
         IN  IF tl[first].Value = owner THEN Nil ELSE "IncorrectOwnerTag"

\* C15: no step changes an account's tag set or the stored Account object,
\* and the tag stage of a run is the same whatever the tagging gate holds:
\* it makes the one tag lookup for the account, its classification is the
\* lookup's failure or the verdict on the tag list as it stands, it returns
\* no-requeue, and it leaves both gates as they were.  The step is described
\* without the gate and holds with the gate true and with the gate false.
C15_TagStageReadOnly ==
    [][ /\ tags' = tags
        /\ store' = store
        /\ \A p \in Procs :
             (pc[p] = "tags" /\ pc'[p] # "tags")
                => /\ pc'[p] = "done"
                   /\ calls'[p] = Append(calls[p],
                                         Call("ListTagsForResource", IdIn(p), "", ""))
                   /\ tagErr'[p] \in {"ListTagsError", OwnerVerdict(tags[p], shardName)}
                   /\ result'[p] = DoNotRequeue
                   /\ accountTagEnabled' = accountTagEnabled
                   /\ accountMoveEnabled' = accountMoveEnabled
                   /\ parents' = parents
      ]_vars

\* C15 witness: with the tagging gate true a run has found the owner tag
\* missing, has returned no-requeue, and the tag set still has no owner tag.
C15_Witness ==
    \E p \in Procs :
        /\ accountTagEnabled
        /\ pc[p] = "done"
        /\ tagErr[p] = "MissingTag"
        /\ result[p] = DoNotRequeue
        /\ ~HasOwnerKey(tags[p])
        /\ calls[p][Len(calls[p])] = Call("ListTagsForResource", IdIn(p), "", "")

----
(* C16 *)

\* The way up from n goes through fuel nodes that each have exactly one
\* parent, none of them the pool OU.
RECURSIVE SingleLinks(_, _)
SingleLinks(n, fuel) ==
    IF fuel = 0 THEN TRUE
    ELSE /\ Len(parents[n]) = 1
         /\ parents[n][1] # PoolOU
         /\ SingleLinks(parents[n][1], fuel - 1)

\* The way up from n never ends: with more such links than there are nodes
\* it runs round a cycle that holds no node satisfying the stop predicate.
OnCycle(n) == n \in Nodes /\ SingleLinks(n, Cardinality(Nodes))

\* The number of nodes on the way up from n to the node where a walk with
\* answered lookups returns: a root, a node with several parents, or the
\* node whose parent is the pool OU.
RECURSIVE ChainLen(_, _)
ChainLen(n, fuel) ==
    IF fuel = 0 THEN 0
    ELSE IF Len(parents[n]) # 1 THEN 1
    ELSE IF parents[n][1] = PoolOU THEN 1
    ELSE 1 + ChainLen(parents[n][1], fuel - 1)

\* The walk of run p is going on or has just returned.
Walking(p) == pc[p] \in {"walk", "walked"}

\* The lookups of run p's walk are those of the way up from the account, one
\* for each node, and no node is looked up twice.
OneLookupPerNode(p) ==
    /\ \A i \in DOMAIN calls[p] :
         calls[p][i] = Call("ListParents",
                            IF i = 1 THEN IdIn(p) ELSE parentList[p][i - 1], "", "")
    /\ \A i, j \in DOMAIN calls[p] : calls[p][i].id = calls[p][j].id => i = j
    /\ Len(calls[p]) <= ChainLen(IdIn(p), Cardinality(Nodes))

\* A walk that has not returned can make its next lookup, and that lookup
\* is of a node of the chain not looked up before.
CanGoOn(p) ==
    pc[p] = "walk"
       => /\ Len(parentList[p]) < MaxDepth
          /\ Len(calls[p]) < ChainLen(IdIn(p), Cardinality(Nodes))

\* C16 (as claimed): on a tree where the way up from the account ends, the
\* walk makes at most one lookup per node of that way and can always take
\* its next step until it returns; on a cycle of single parents without the
\* pool OU the walk never returns.
C16_WalkEndsUnlessCyclic ==
    \A p \in Procs :
        Walking(p) =>
            /\ ~OnCycle(IdIn(p)) => OneLookupPerNode(p) /\ CanGoOn(p)
            /\ OnCycle(IdIn(p)) => pc[p] = "walk"

\* C16 (amended): on a tree where the way up from the account ends, the
\* walk makes at most one lookup per node of that way and can always take
\* its next step until it returns; on a cycle of single parents without the
\* pool OU the walk returns only when a lookup fails, with that failure as
\* its error: as long as the lookups are answered it makes one more lookup
\* for every entry of the path and the path follows the cycle.
C16_WalkEndsUnlessCyclicAndAnswered ==
    \A p \in Procs :
        Walking(p) =>
            /\ ~OnCycle(IdIn(p)) => OneLookupPerNode(p) /\ CanGoOn(p)
            /\ OnCycle(IdIn(p))
                 => /\ pc[p] = "walked" => walkErr[p] = ListParentsErr
                    /\ pc[p] = "walk" => Len(calls[p]) = Len(parentList[p])
                    /\ PathFollowsParents(IdIn(p), parentList[p])
                    /\ \A i \in DOMAIN parentList[p] : parentList[p][i] # PoolOU

\* C16 witness: on the cycle OU1, OU3 the walk has looked OU1 up twice and
\* has not returned.
C16_Witness ==
    \E p \in Procs :
        /\ pc[p] = "walk"
        /\ OnCycle(IdIn(p))
        /\ parentList[p] = <<"OU1", "OU3", "OU1", "OU3">>
        /\ Len(calls[p]) = 4

----
(* C17 *)

\* C17: the calls of a run come in the order of its stages: the parent
\* lookups of the OU check and of the mover, then at most one reparent
\* request, then at most one tag lookup.  The tag lookup is made only after
\* the OU stage has returned without error, it is the last call of the run,
\* and so no call to the tree service follows it.
C17_StagesInOrder ==
    \A p \in Procs :
        /\ Cardinality(CallsOf(p, "ListTagsForResource")) <= 1
        /\ Cardinality(CallsOf(p, "MoveAccount")) <= 1
        /\ \A i \in CallsOf(p, "ListTagsForResource") :
             /\ i = Len(calls[p])
             /\ ouErr[p] = Nil
             /\ pc[p] = "done"
        /\ \A i \in CallsOf(p, "MoveAccount") :
             /\ i > 1
             /\ \A j \in 1..(i - 1) : calls[p][j].op = "ListParents"
             /\ \A j \in (i + 1)..Len(calls[p]) : calls[p][j].op = "ListTagsForResource"
        /\ pc[p] = "tags" => ouErr[p] = Nil
        /\ (pc[p] = "done" /\ ouErr[p] \notin {None, Nil})
             => CallsOf(p, "ListTagsForResource") = {}

\* C17 witness: a finished run made parent lookups, then a reparent request,
\* then the tag lookup.
C17_Witness ==
    \E p \in Procs :
        /\ pc[p] = "done"
        /\ Len(calls[p]) >= 4
        /\ CallsOf(p, "MoveAccount") = {Len(calls[p]) - 1}
        /\ CallsOf(p, "ListTagsForResource") = {Len(calls[p])}
        /\ CallsOf(p, "ListParents") = 1..(Len(calls[p]) - 2)

----
(* C18 *)

\* The OU stage of run p, of an in-scope account with a cloud identifier,
\* has just returned without a classified error.
OUStagePassed(p) ==
    /\ InScopeRun(p)
    /\ IdIn(p) # ""
    /\ pc[p] = "tags"
    /\ ouErr[p] = Nil

\* C18 (as claimed): when the OU stage of a run of an in-scope account with
\* a cloud identifier returns without a classified error while the
\* relocation gate is enabled, and nothing else changes the tree, the
\* account's immediate parent is the pool OU.
C18_GateOnEndsUnderPool ==
    \A p \in Procs :
        (OUStagePassed(p) /\ accountMoveEnabled) => ParentIsPool(IdIn(p))

----
(* C19 *)

\* C19 (as claimed): with reconciliations running at the same time and
\* sharing the gates, a run whose own read of the relocation value gave
\* false never issues a reparent request, and the gate value a run uses at
\* its move decision is the one it read itself.
C19_OwnReadDecides ==
    \A p \in Procs :
        /\ moveRead[p] = "false" => CallsOf(p, "MoveAccount") = {}
        /\ (moveRead[p] \in {"true", "false"} /\ oldOu[p] # "")
             => moveAccount[p] = (moveRead[p] = "true")

\* C19 (amended): with reconciliations running at the same time and
\* sharing the gates, the gate value a run uses at its move decision is the
\* one the process-wide gate holds at that moment, whichever run wrote it
\* last: a run goes on to a reparent request only when that gate is true
\* then, and a run that has issued a reparent request used the value true.
C19_SharedGateDecides ==
    /\ [](\A p \in Procs :
            /\ CallsOf(p, "MoveAccount") # {} => moveAccount[p]
            /\ pc[p] = "move" => moveAccount[p])
    /\ [][ \A p \in Procs :
             /\ (pc[p] = "notInPool" /\ pc'[p] # "notInPool")
                  => /\ moveAccount'[p] = accountMoveEnabled
                     /\ pc'[p] = "move" => accountMoveEnabled
                     /\ accountMoveEnabled' = accountMoveEnabled
             /\ CallsOf(p, "MoveAccount")' # CallsOf(p, "MoveAccount")
                  => (pc[p] = "move" \/ pc[p] = "done")
         ]_vars

\* C19 witness: a run that read the relocation value false has issued a
\* reparent request, after the other run set the gate true.
C19_Witness ==
    \E p \in Procs :
        /\ moveRead[p] = "false"
        /\ moveAccount[p]
        /\ CallsOf(p, "MoveAccount") # {}

====
